---- MODULE Spec2Model ----
(***************************************************************************)
(* Flash-loan program blueshift_anchor_flash_loan (lib.rs): the borrow and *)
(* repay handlers, the Loan account constraints, and the runtime pieces    *)
(* they rely on (sequential execution of a transaction's instructions,     *)
(* all-or-nothing commit, the instructions sysvar, the token transfer).    *)
(*                                                                         *)
(* A transaction is the ordered list of its top-level instructions.  An    *)
(* instruction of another program is opaque: it succeeds, fails, or moves  *)
(* tokens of the wallet that signed; it cannot sign for the protocol PDA.  *)
(*                                                                         *)
(* 64-bit and 128-bit unsigned integers are little-endian sequences of     *)
(* 16-bit limbs (4 and 8 limbs), so that every value of the width exists   *)
(* in the model and overflow is exact.                                     *)
(***************************************************************************)
EXTENDS Integers, Sequences, FiniteSets, TLC

VARIABLES
    balances,   \* token account -> amount (u64), as the instructions see it
    snapshot,   \* balances at the start of the transaction in flight
    tx,         \* the transaction: sequence of instructions
    pc,         \* index (0-based) of the next instruction to execute
    status,     \* "idle" | "running" | "committed" | "aborted"
    err,        \* result of the last executed instruction
    log,        \* per executed instruction of this transaction: what it did
    txCount     \* transactions submitted so far

vars == <<balances, snapshot, tx, pc, status, err, log, txCount>>

----------------------------------------------------------------------------
(* Fixed-width unsigned arithmetic on limb sequences.                       *)

Base == 256 * 256

U64Limbs == 4

U128Limbs == 8

Zero(n) == [i \in 1..n |-> 0]

Small(n, v) == [i \in 1..n |-> IF i = 1 THEN v % Base
                               ELSE IF i = 2 THEN v \div Base ELSE 0]

U64(v) == Small(U64Limbs, v)

U64Max == [i \in 1..U64Limbs |-> Base - 1]

\* `x as u128`: zero extension.
AsU128(a) == [i \in 1..U128Limbs |-> IF i <= Len(a) THEN a[i] ELSE 0]

\* `x as u64`: keeps the low 64 bits.
AsU64(a) == [i \in 1..U64Limbs |-> a[i]]

RECURSIVE MulFrom(_, _, _, _)
MulFrom(a, k, i, c) ==
    IF i > Len(a) THEN <<c>>
    ELSE LET p == a[i] * k + c
         IN  <<p % Base>> \o MulFrom(a, k, i + 1, p \div Base)

\* checked_mul by a small constant: None when the product leaves the width.
CheckedMul(a, k) ==
    LET r == MulFrom(a, k, 1, 0)
    IN  IF r[Len(a) + 1] = 0
        THEN [some |-> TRUE, val |-> SubSeq(r, 1, Len(a))]
        ELSE [some |-> FALSE, val |-> Zero(Len(a))]

\* Limbs i..1 of a \div k, from the most significant limb down.
RECURSIVE DivDown(_, _, _, _)
DivDown(a, k, i, r) ==
    IF i = 0 THEN <<>>
    ELSE LET cur == r * Base + a[i]
         IN  DivDown(a, k, i - 1, cur % k) \o <<cur \div k>>

\* checked_div by a small constant: None when the divisor is zero.
CheckedDiv(a, k) ==
    IF k = 0 THEN [some |-> FALSE, val |-> Zero(Len(a))]
    ELSE [some |-> TRUE, val |-> DivDown(a, k, Len(a), 0)]

RECURSIVE AddFrom(_, _, _, _)
AddFrom(a, b, i, c) ==
    IF i > Len(a) THEN <<c>>
    ELSE LET s == a[i] + b[i] + c
         IN  <<s % Base>> \o AddFrom(a, b, i + 1, s \div Base)

\* checked_add: None when the sum leaves the width.
CheckedAdd(a, b) ==
    LET r == AddFrom(a, b, 1, 0)
    IN  IF r[Len(a) + 1] = 0
        THEN [some |-> TRUE, val |-> SubSeq(r, 1, Len(a))]
        ELSE [some |-> FALSE, val |-> Zero(Len(a))]

RECURSIVE SubFrom(_, _, _, _)
SubFrom(a, b, i, c) ==
    IF i > Len(a) THEN <<c>>
    ELSE LET d == a[i] - b[i] - c
         IN  IF d < 0 THEN <<d + Base>> \o SubFrom(a, b, i + 1, 1)
             ELSE <<d>> \o SubFrom(a, b, i + 1, 0)

\* checked_sub: None when b > a.
CheckedSub(a, b) ==
    LET r == SubFrom(a, b, 1, 0)
    IN  IF r[Len(a) + 1] = 0
        THEN [some |-> TRUE, val |-> SubSeq(r, 1, Len(a))]
        ELSE [some |-> FALSE, val |-> Zero(Len(a))]

Leq(a, b) == CheckedSub(b, a).some

\* a + b and a - b where the result is known to be in range.
Plus(a, b) == CheckedAdd(a, b).val

Minus(a, b) == CheckedSub(a, b).val

Lt(a, b) == ~Leq(b, a)

\* u64::to_le_bytes / u64::from_le_bytes.
ToLeBytes(a) == [i \in 1..(2 * Len(a)) |->
                    IF i % 2 = 1 THEN a[(i + 1) \div 2] % 256
                    ELSE a[i \div 2] \div 256]

FromLeBytes(b) == [i \in 1..(Len(b) \div 2) |-> b[2 * i - 1] + 256 * b[2 * i]]

----------------------------------------------------------------------------
(* Keys, accounts and instructions.                                         *)

\* declare_id!: this program's identity.
ID == "FlashLoanProgram"

OtherProgram == "OtherProgram"

\* Wallets; every wallet a transaction names as borrower signs it.
Wallets == {"B1", "B2"}

\* The program-derived account of seeds [b"protocol"]; it has no private key.
ProtocolPda == "ProtocolPda"

MintKey == "Mint"

\* get_associated_token_address(owner, mint), for the one mint of the model.
AssociatedTokenAddress(owner, mint) ==
    CASE owner = "B1" /\ mint = MintKey -> "A1"
      [] owner = "B2" /\ mint = MintKey -> "A2"
      [] owner = ProtocolPda /\ mint = MintKey -> "P"
      [] OTHER -> "NoAta"

\* Token accounts and the wallet or PDA that may move their funds.
TokenAccounts == {"A1", "A2", "P", "Ext"}

TokenOwner == [a \in TokenAccounts |->
                  CASE a = "A1" -> "B1"
                    [] a = "A2" -> "B2"
                    [] a = "P" -> ProtocolPda
                    [] OTHER -> "Outsider"]

\* Anchor's 8-byte discriminators: sha256("global:<name>")[0..8].
BorrowDiscriminator == <<228, 253, 131, 202, 207, 116, 89, 18>>

RepayDiscriminator == <<234, 103, 67, 82, 208, 234, 219, 166>>

\* instruction::Borrow { borrow_amount }.data() and instruction::Repay {}.data().
BorrowData(a) == BorrowDiscriminator \o ToLeBytes(a)

RepayData == RepayDiscriminator

\* Positions of the Loan accounts inside an instruction's account list
\* (0-based, as accounts.get(i) counts them).
BorrowerPos == 0
ProtocolPos == 1
MintPos == 2
BorrowerAtaPos == 3
ProtocolAtaPos == 4

\* accounts.get(i): the key at 0-based position i, or "None".
Get(accounts, i) == IF i + 1 <= Len(accounts) THEN accounts[i + 1] ELSE "None"

\* The Loan accounts of a wallet, in declaration order (the instructions sysvar
\* and the three program handles that follow are fixed keys, always supplied).
LoanAccounts(w) == <<w, ProtocolPda, MintKey,
                     AssociatedTokenAddress(w, MintKey),
                     AssociatedTokenAddress(ProtocolPda, MintKey)>>

Ix(p, accs, d) == [program_id |-> p, accounts |-> accs, data |-> d]

----------------------------------------------------------------------------
(* The token program's transfer, as the two handlers call it.               *)

\* transfer(from, to, authority, amount): the authority must own `from` and
\* have signed (a wallet by the transaction's signature, the PDA by the
\* signer seeds of the calling program); the balance must cover the amount.
Transfer(bal, from, to, authority, signed, amount) ==
    IF from \notin TokenAccounts \/ to \notin TokenAccounts
    THEN [res |-> "InvalidAccountData", bal |-> bal]
    ELSE IF TokenOwner[from] # authority
    THEN [res |-> "OwnerMismatch", bal |-> bal]
    ELSE IF ~signed
    THEN [res |-> "MissingRequiredSignature", bal |-> bal]
    ELSE IF Lt(bal[from], amount)
    THEN [res |-> "InsufficientFunds", bal |-> bal]
    ELSE IF from = to
    THEN [res |-> "Ok", bal |-> bal]
    ELSE LET credit == CheckedAdd(bal[to], amount)
         IN  IF ~credit.some
             THEN [res |-> "TokenOverflow", bal |-> bal]
             ELSE [res |-> "Ok",
                   bal |-> [bal EXCEPT ![from] = CheckedSub(bal[from], amount).val,
                                       ![to] = credit.val]]

----------------------------------------------------------------------------
(* The instructions sysvar.                                                 *)

\* load_current_index_checked: index of the executing top-level instruction.
LoadCurrentIndex(cur) == cur

\* The u16 instruction count at bytes 0..2 of the sysvar data.
InstructionCount(txn) == Len(txn)

\* load_instruction_at_checked(index): the instruction, or an error when the
\* index is not below the instruction count.
LoadInstructionAt(index, txn) ==
    IF 0 <= index /\ index < Len(txn)
    THEN [ok |-> TRUE, ix |-> txn[index + 1]]
    ELSE [ok |-> FALSE, ix |-> Ix("None", <<>>, <<>>)]

\* data[lo..hi] of a byte vector (0-based, hi exclusive); panics when
\* hi exceeds the length.
SliceOk(data, hi) == hi <= Len(data)

Slice(data, lo, hi) == SubSeq(data, lo + 1, hi)

----------------------------------------------------------------------------
(* #[derive(Accounts)] Loan: the constraints checked before either handler. *)

LoanCheck(accounts) ==
    IF Len(accounts) <= ProtocolAtaPos THEN "NotEnoughAccountKeys"
    ELSE IF Get(accounts, BorrowerPos) \notin Wallets THEN "AccountNotSigner"
    ELSE IF Get(accounts, ProtocolPos) # ProtocolPda THEN "ConstraintSeeds"
    ELSE IF Get(accounts, MintPos) # MintKey THEN "AccountOwnedByWrongProgram"
    ELSE IF Get(accounts, BorrowerAtaPos) #
            AssociatedTokenAddress(Get(accounts, BorrowerPos), MintKey)
    THEN "AccountNotAssociatedTokenAccount"
    ELSE IF Get(accounts, ProtocolAtaPos) #
            AssociatedTokenAddress(ProtocolPda, MintKey)
    THEN "ConstraintAssociated"
    ELSE "Ok"

\* #[program]: the entry point picks the handler by the discriminator, decodes
\* its arguments, then validates the accounts.  Returns the handler's name or
\* the error that keeps the handler from running.
BorrowArgBytes == 8

Entry(ix) ==
    IF SliceOk(ix.data, 8) /\ Slice(ix.data, 0, 8) = BorrowDiscriminator
    THEN IF ~SliceOk(ix.data, 8 + BorrowArgBytes)
         THEN "InstructionDidNotDeserialize"
         ELSE IF LoanCheck(ix.accounts) # "Ok" THEN LoanCheck(ix.accounts)
         ELSE "borrow"
    ELSE IF SliceOk(ix.data, 8) /\ Slice(ix.data, 0, 8) = RepayDiscriminator
    THEN IF LoanCheck(ix.accounts) # "Ok" THEN LoanCheck(ix.accounts)
         ELSE "repay"
    ELSE "InstructionFallbackNotFound"

\* The borrow_amount argument as the entry point decodes it (Borsh u64, LE).
BorrowArg(ix) == FromLeBytes(Slice(ix.data, 8, 8 + BorrowArgBytes))

----------------------------------------------------------------------------
(* The handlers.  Each returns res (Ok or the error), bal (the balances     *)
(* when it returns, before any rollback), xfer (transfers attempted) and    *)
(* amt (the amount handed to the transfer, zero when none was attempted).   *)

Ret(r, b, n, amt) == [res |-> r, bal |-> b, xfer |-> n, amt |-> amt]

NoAmount == Zero(U64Limbs)

\* Mutant: the program identity of the last instruction is not checked.
RepayIxCheckNoProgram(repay_ix, borrower_ata, protocol_ata) ==
    IF ~SliceOk(repay_ix.data, 8) THEN "Panic"
    ELSE IF Slice(repay_ix.data, 0, 8) # RepayDiscriminator THEN "InvalidIx"
    ELSE IF Get(repay_ix.accounts, BorrowerAtaPos) # borrower_ata
    THEN "InvalidBorrowerAta"
    ELSE IF Get(repay_ix.accounts, ProtocolAtaPos) # protocol_ata
    THEN "InvalidProtocolAta"
    ELSE "Ok"

\* Mutant: the tag of the last instruction is not checked.
RepayIxCheckNoTag(repay_ix, borrower_ata, protocol_ata) ==
    IF repay_ix.program_id # ID THEN "InvalidProgram"
    ELSE IF Get(repay_ix.accounts, BorrowerAtaPos) # borrower_ata
    THEN "InvalidBorrowerAta"
    ELSE IF Get(repay_ix.accounts, ProtocolAtaPos) # protocol_ata
    THEN "InvalidProtocolAta"
    ELSE "Ok"

\* Mutant: the reserve token account is compared before the borrower's.
RepayIxCheckAtaSwapped(repay_ix, borrower_ata, protocol_ata) ==
    IF repay_ix.program_id # ID THEN "InvalidProgram"
    ELSE IF ~SliceOk(repay_ix.data, 8) THEN "Panic"
    ELSE IF Slice(repay_ix.data, 0, 8) # RepayDiscriminator THEN "InvalidIx"
    ELSE IF Get(repay_ix.accounts, ProtocolAtaPos) # protocol_ata
    THEN "InvalidProtocolAta"
    ELSE IF Get(repay_ix.accounts, BorrowerAtaPos) # borrower_ata
    THEN "InvalidBorrowerAta"
    ELSE "Ok"

\* The checks of borrow on the transaction's last instruction.
RepayIxCheck(repay_ix, borrower_ata, protocol_ata) ==
    IF repay_ix.program_id # ID THEN "InvalidProgram"
    ELSE IF ~SliceOk(repay_ix.data, 8) THEN "Panic"
    ELSE IF Slice(repay_ix.data, 0, 8) # RepayDiscriminator THEN "InvalidIx"
    ELSE IF Get(repay_ix.accounts, BorrowerAtaPos) = "None" THEN "InvalidBorrowerAta"
    ELSE IF Get(repay_ix.accounts, BorrowerAtaPos) # borrower_ata
    THEN "InvalidBorrowerAta"
    ELSE IF Get(repay_ix.accounts, ProtocolAtaPos) = "None" THEN "InvalidProtocolAta"
    ELSE IF Get(repay_ix.accounts, ProtocolAtaPos) # protocol_ata
    THEN "InvalidProtocolAta"
    ELSE "Ok"

\* Mutant: the check that borrow is the first instruction is left out.
BorrowIntrospectNoIndex(accounts, cur, txn) ==
    LET len == InstructionCount(txn)
        last == LoadInstructionAt(len - 1, txn)
    IN  IF last.ok
        THEN RepayIxCheck(last.ix, Get(accounts, BorrowerAtaPos),
                          Get(accounts, ProtocolAtaPos))
        ELSE "MissingRepayIx"

\* Mutant: a borrow that is not first fails with another error variant.
BorrowIntrospectWrongError(accounts, cur, txn) ==
    IF LoadCurrentIndex(cur) # 0 THEN "InvalidInstructionIndex"
    ELSE LET len == InstructionCount(txn)
             last == LoadInstructionAt(len - 1, txn)
         IN  IF last.ok
             THEN RepayIxCheck(last.ix, Get(accounts, BorrowerAtaPos),
                               Get(accounts, ProtocolAtaPos))
             ELSE "MissingRepayIx"

\* Mutant: the last instruction is looked up but none of its fields checked.
BorrowIntrospectNoRepayCheck(accounts, cur, txn) ==
    IF LoadCurrentIndex(cur) # 0 THEN "InvalidIx"
    ELSE IF LoadInstructionAt(InstructionCount(txn) - 1, txn).ok THEN "Ok"
    ELSE "MissingRepayIx"

\* Mutant: the last instruction is looked up at index len instead of len - 1.
BorrowIntrospectPastEnd(accounts, cur, txn) ==
    IF LoadCurrentIndex(cur) # 0 THEN "InvalidIx"
    ELSE LET len == InstructionCount(txn)
             last == LoadInstructionAt(len, txn)
         IN  IF last.ok
             THEN RepayIxCheck(last.ix, Get(accounts, BorrowerAtaPos),
                               Get(accounts, ProtocolAtaPos))
             ELSE "MissingRepayIx"

\* The introspection part of borrow: index check, then the last instruction.
BorrowIntrospect(accounts, cur, txn) ==
    IF LoadCurrentIndex(cur) # 0 THEN "InvalidIx"
    ELSE LET len == InstructionCount(txn)
             last == LoadInstructionAt(len - 1, txn)
         IN  IF last.ok
             THEN RepayIxCheck(last.ix, Get(accounts, BorrowerAtaPos),
                               Get(accounts, ProtocolAtaPos))
             ELSE "MissingRepayIx"

\* Mutant: the amount is checked after the transfer instead of before it.
borrowAmountCheckedLate(accounts, borrow_amount, bal, cur, txn) ==
    LET t == Transfer(bal, Get(accounts, ProtocolAtaPos),
                      Get(accounts, BorrowerAtaPos),
                      Get(accounts, ProtocolPos), TRUE, borrow_amount)
    IN  IF t.res # "Ok" THEN Ret(t.res, bal, 1, borrow_amount)
        ELSE IF ~Lt(Zero(U64Limbs), borrow_amount)
        THEN Ret("InvalidAmount", t.bal, 1, borrow_amount)
        ELSE Ret(BorrowIntrospect(accounts, cur, txn), t.bal, 1, borrow_amount)

\* Mutant: the transaction is introspected before the transfer.
borrowIntrospectsFirst(accounts, borrow_amount, bal, cur, txn) ==
    IF ~Lt(Zero(U64Limbs), borrow_amount) THEN Ret("InvalidAmount", bal, 0, NoAmount)
    ELSE IF BorrowIntrospect(accounts, cur, txn) # "Ok"
    THEN Ret(BorrowIntrospect(accounts, cur, txn), bal, 0, NoAmount)
    ELSE LET t == Transfer(bal, Get(accounts, ProtocolAtaPos),
                           Get(accounts, BorrowerAtaPos),
                           Get(accounts, ProtocolPos), TRUE, borrow_amount)
         IN  IF t.res # "Ok" THEN Ret(t.res, bal, 1, borrow_amount)
             ELSE Ret("Ok", t.bal, 1, borrow_amount)

\* Mutant: borrow transfers and returns without introspecting the transaction.
borrowNoIntrospection(accounts, borrow_amount, bal, cur, txn) ==
    IF ~Lt(Zero(U64Limbs), borrow_amount) THEN Ret("InvalidAmount", bal, 0, NoAmount)
    ELSE LET t == Transfer(bal, Get(accounts, ProtocolAtaPos),
                           Get(accounts, BorrowerAtaPos),
                           Get(accounts, ProtocolPos), TRUE, borrow_amount)
         IN  IF t.res # "Ok" THEN Ret(t.res, bal, 1, borrow_amount)
             ELSE Ret("Ok", t.bal, 1, borrow_amount)

\* pub fn borrow(ctx, borrow_amount)
borrow(accounts, borrow_amount, bal, cur, txn) ==
    IF ~Lt(Zero(U64Limbs), borrow_amount) THEN Ret("InvalidAmount", bal, 0, NoAmount)
    ELSE LET t == Transfer(bal, Get(accounts, ProtocolAtaPos),
                           Get(accounts, BorrowerAtaPos),
                           Get(accounts, ProtocolPos), TRUE, borrow_amount)
         IN  IF t.res # "Ok" THEN Ret(t.res, bal, 1, borrow_amount)
             ELSE Ret(BorrowIntrospect(accounts, cur, txn), t.bal, 1, borrow_amount)

FeeBps == 500

BpsDenominator == 10000

\* Mutant: the rate is 50 basis points instead of 500.
FeeWrongRate(amount_borrowed) ==
    LET m == CheckedMul(AsU128(amount_borrowed), FeeBps \div 10)
        d == CheckedDiv(m.val, BpsDenominator)
    IN  IF ~m.some THEN [res |-> "Panic", val |-> Zero(U64Limbs)]
        ELSE IF ~d.some THEN [res |-> "Overflow", val |-> Zero(U64Limbs)]
        ELSE [res |-> "Ok", val |-> AsU64(d.val)]

\* Mutant: the fee is rounded to the nearest unit instead of down.
FeeRoundsToNearest(amount_borrowed) ==
    LET m == CheckedMul(AsU128(amount_borrowed), FeeBps)
        h == CheckedAdd(m.val, Small(U128Limbs, BpsDenominator \div 2))
        d == CheckedDiv(h.val, BpsDenominator)
    IN  IF ~m.some THEN [res |-> "Panic", val |-> Zero(U64Limbs)]
        ELSE IF ~d.some THEN [res |-> "Overflow", val |-> Zero(U64Limbs)]
        ELSE [res |-> "Ok", val |-> AsU64(d.val)]

\* The fee before `as u64`: the product and the quotient in 128 bits.
FeeWide(amount_borrowed) ==
    LET m == CheckedMul(AsU128(amount_borrowed), FeeBps)
        d == CheckedDiv(m.val, BpsDenominator)
    IN  [mul |-> m.some, div |-> d.some, val |-> d.val]

\* Mutant: the product is computed in 64 bits, without widening.
FeeInSingleWidth(amount_borrowed) ==
    LET m == CheckedMul(amount_borrowed, FeeBps)
        d == CheckedDiv(m.val, BpsDenominator)
    IN  IF ~m.some THEN [res |-> "Panic", val |-> Zero(U64Limbs)]
        ELSE IF ~d.some THEN [res |-> "Overflow", val |-> Zero(U64Limbs)]
        ELSE [res |-> "Ok", val |-> AsU64(d.val)]

\* (amount_borrowed as u128).checked_mul(500).unwrap()
\*     .checked_div(10_000).ok_or(Overflow)? as u64
Fee(amount_borrowed) ==
    LET m == CheckedMul(AsU128(amount_borrowed), FeeBps)
        d == CheckedDiv(m.val, BpsDenominator)
    IN  IF ~m.some THEN [res |-> "Panic", val |-> Zero(U64Limbs)]
        ELSE IF ~d.some THEN [res |-> "Overflow", val |-> Zero(U64Limbs)]
        ELSE [res |-> "Ok", val |-> AsU64(d.val)]

\* Mutant: the fee is added with wrapping instead of checked addition.
TotalDueWrapping(amount_borrowed) ==
    LET f == Fee(amount_borrowed)
        s == AddFrom(amount_borrowed, f.val, 1, 0)
    IN  IF f.res # "Ok" THEN [res |-> f.res, val |-> Zero(U64Limbs)]
        ELSE [res |-> "Ok", val |-> SubSeq(s, 1, U64Limbs)]

\* amount_borrowed.checked_add(fee).ok_or(Overflow)?
TotalDue(amount_borrowed) ==
    LET f == Fee(amount_borrowed)
        s == CheckedAdd(amount_borrowed, f.val)
    IN  IF f.res # "Ok" THEN [res |-> f.res, val |-> Zero(U64Limbs)]
        ELSE IF ~s.some THEN [res |-> "Overflow", val |-> Zero(U64Limbs)]
        ELSE [res |-> "Ok", val |-> s.val]

\* Mutant: the amount is read one byte too early.
AmountBorrowedWrongOffset(borrow_ix) == FromLeBytes(Slice(borrow_ix.data, 7, 15))

\* The amount repay reads from the instruction at index 0.
AmountBorrowed(borrow_ix) == FromLeBytes(Slice(borrow_ix.data, 8, 16))

\* Mutant: repay's transfer runs from the reserve to the borrower, signed for
\* the reserve authority.
repayTransferReversed(accounts, bal, txn) ==
    LET first == LoadInstructionAt(0, txn)
    IN  IF ~first.ok THEN Ret("MissingBorrowIx", bal, 0, NoAmount)
        ELSE IF ~SliceOk(first.ix.data, 16) THEN Ret("Panic", bal, 0, NoAmount)
        ELSE LET due == TotalDue(AmountBorrowed(first.ix))
             IN  IF due.res # "Ok" THEN Ret(due.res, bal, 0, NoAmount)
                 ELSE LET t == Transfer(bal, Get(accounts, ProtocolAtaPos),
                                        Get(accounts, BorrowerAtaPos),
                                        Get(accounts, ProtocolPos), TRUE, due.val)
                      IN  Ret(t.res, t.bal, 1, due.val)

\* Mutant: repay insists that the instruction at index 0 is a Borrow of this
\* program.
repayChecksPairing(accounts, bal, txn) ==
    LET first == LoadInstructionAt(0, txn)
    IN  IF ~first.ok THEN Ret("MissingBorrowIx", bal, 0, NoAmount)
        ELSE IF ~SliceOk(first.ix.data, 16) THEN Ret("Panic", bal, 0, NoAmount)
        ELSE IF \/ first.ix.program_id # ID
                \/ Slice(first.ix.data, 0, 8) # BorrowDiscriminator
        THEN Ret("MissingBorrowIx", bal, 0, NoAmount)
        ELSE LET due == TotalDue(AmountBorrowed(first.ix))
             IN  IF due.res # "Ok" THEN Ret(due.res, bal, 0, NoAmount)
                 ELSE LET t == Transfer(bal, Get(accounts, BorrowerAtaPos),
                                        Get(accounts, ProtocolAtaPos),
                                        Get(accounts, BorrowerPos), TRUE, due.val)
                      IN  Ret(t.res, t.bal, 1, due.val)

\* pub fn repay(ctx)
repay(accounts, bal, txn) ==
    LET first == LoadInstructionAt(0, txn)
    IN  IF ~first.ok THEN Ret("MissingBorrowIx", bal, 0, NoAmount)
        ELSE IF ~SliceOk(first.ix.data, 16) THEN Ret("Panic", bal, 0, NoAmount)
        ELSE LET due == TotalDue(AmountBorrowed(first.ix))
             IN  IF due.res # "Ok" THEN Ret(due.res, bal, 0, NoAmount)
                 ELSE LET t == Transfer(bal, Get(accounts, BorrowerAtaPos),
                                        Get(accounts, ProtocolAtaPos),
                                        Get(accounts, BorrowerPos), TRUE, due.val)
                      IN  Ret(t.res, t.bal, 1, due.val)

----------------------------------------------------------------------------
(* The transactions of the model.                                           *)

MaxTxLen == 3

MaxTx == 1

\* An amount whose fee-inclusive total leaves 64 bits: u64::MAX - 1000.
BigAmount == CheckedSub(U64Max, U64(1000)).val

BorrowAmounts == {U64(0), U64(10000), BigAmount}

\* Account lists a Repay-tagged instruction may carry: the Loan accounts of
\* either wallet, lists cut before position 3 or 4, and a list naming another
\* token account at position 4.
RepayAccountLists ==
    { LoanAccounts("B1"), LoanAccounts("B2"),
      <<"B1", ProtocolPda, MintKey>>,
      <<"B1", ProtocolPda, MintKey, "A1">>,
      <<"B1", ProtocolPda, MintKey, "A1", "Ext">> }

Instrs ==
    { Ix(ID, LoanAccounts("B1"), BorrowData(a)) : a \in BorrowAmounts }
    \cup { Ix(ID, accs, RepayData) : accs \in RepayAccountLists }
    \cup { Ix(ID, LoanAccounts("B1"), <<234, 103, 67>>) }
    \cup { Ix(OtherProgram, LoanAccounts("B1"), RepayData),
           Ix(OtherProgram, LoanAccounts("B1"), BorrowData(U64(100))) }

Txs == UNION { [1..n -> Instrs] : n \in 1..MaxTxLen }

\* What an instruction of another program moves out of the borrower's account.
SpendAmount == U64(600)

\* Balances before the first transaction: a small reserve with funded
\* wallets, and a reserve holding all of the supply but 1000 units.
InitBalances ==
    { [a \in TokenAccounts |->
          CASE a = "P" -> U64(20000) [] a = "A1" -> U64(12000)
            [] a = "A2" -> U64(20000) [] OTHER -> U64(0)],
      [a \in TokenAccounts |->
          CASE a = "P" -> BigAmount [] a = "A1" -> U64(1000)
            [] OTHER -> U64(0)] }

----------------------------------------------------------------------------
(* The runtime: one action per executed instruction.                        *)

Init ==
    /\ balances \in InitBalances
    /\ snapshot = balances
    /\ tx = <<>>
    /\ pc = 0
    /\ status = "idle"
    /\ err = "Ok"
    /\ log = <<>>
    /\ txCount = 0

\* A transaction is submitted; the runtime publishes its instructions.
SubmitFrom(S) ==
    /\ status = "idle"
    /\ txCount < MaxTx
    /\ \E t \in S : tx' = t
    /\ snapshot' = balances
    /\ pc' = 0
    /\ status' = "running"
    /\ err' = "Ok"
    /\ log' = <<>>
    /\ txCount' = txCount + 1
    /\ UNCHANGED balances

Submit == SubmitFrom(Txs)

\* The runtime is done with a committed or aborted transaction; only the
\* token balances persist.
Settle ==
    /\ status \in {"committed", "aborted"}
    /\ status' = "idle"
    /\ tx' = <<>>
    /\ pc' = 0
    /\ err' = "Ok"
    /\ log' = <<>>
    /\ snapshot' = balances
    /\ UNCHANGED <<balances, txCount>>

Current == tx[pc + 1]

\* The runtime's handling of an instruction's result: on success the next
\* instruction (or the commit, after the last one); on any error the whole
\* transaction is rolled back.
Finish(op, r) ==
    /\ log' = Append(log, [op |-> op, res |-> r.res, xfer |-> r.xfer,
                         amt |-> r.amt, bal |-> r.bal])
    /\ err' = r.res
    /\ IF r.res = "Ok"
       THEN /\ balances' = r.bal
            /\ pc' = pc + 1
            /\ status' = IF pc + 1 = Len(tx) THEN "committed" ELSE "running"
       ELSE /\ balances' = snapshot
            /\ pc' = pc
            /\ status' = "aborted"
    /\ UNCHANGED <<snapshot, tx, txCount>>

ExecBorrow ==
    /\ status = "running"
    /\ Current.program_id = ID
    /\ Entry(Current) = "borrow"
    /\ Finish("borrow", borrow(Current.accounts, BorrowArg(Current), balances, pc, tx))

ExecRepay ==
    /\ status = "running"
    /\ Current.program_id = ID
    /\ Entry(Current) = "repay"
    /\ Finish("repay", repay(Current.accounts, balances, tx))

\* The entry point rejects the instruction before any handler runs.
ExecRejected ==
    /\ status = "running"
    /\ Current.program_id = ID
    /\ Entry(Current) \notin {"borrow", "repay"}
    /\ Finish("entry", Ret(Entry(Current), balances, 0, NoAmount))

\* An instruction of another program: it succeeds without touching the
\* token accounts, fails, or moves funds of the signing wallet.
ExecForeignOk ==
    /\ status = "running"
    /\ Current.program_id # ID
    /\ Finish("foreign", Ret("Ok", balances, 0, NoAmount))

ExecForeignFail ==
    /\ status = "running"
    /\ Current.program_id # ID
    /\ Finish("foreign", Ret("ForeignError", balances, 0, NoAmount))

ExecForeignSpend ==
    /\ status = "running"
    /\ Current.program_id # ID
    /\ LET w == Get(Current.accounts, BorrowerPos)
           t == Transfer(balances, Get(Current.accounts, BorrowerAtaPos), "Ext",
                         w, w \in Wallets, SpendAmount)
       IN  Finish("foreign", Ret(t.res, t.bal, 1, SpendAmount))

Next ==
    \/ Submit
    \/ Settle
    \/ ExecBorrow
    \/ ExecRepay
    \/ ExecRejected
    \/ ExecForeignOk
    \/ ExecForeignFail
    \/ ExecForeignSpend

Spec == Init /\ [][Next]_vars

TypeOK ==
    /\ status \in {"idle", "running", "committed", "aborted"}
    /\ pc \in 0..MaxTxLen
    /\ \A a \in TokenAccounts : Len(balances[a]) = U64Limbs

----------------------------------------------------------------------------
(* The fee arithmetic over many amounts: transactions [X, Repay] in which   *)
(* the instruction at index 0 is a Borrow or an instruction of another      *)
(* program with a 16-byte payload, for amounts across the 64-bit range.     *)

\* u64::MAX / 1000, and the largest amount whose fee-inclusive total fits.
U64MaxDiv1000 == <<42991, 19398, 35127, 65>>

LargestPayable == <<62415, 53052, 15603, 62415>>

LowLimbSamples == {0, 1, 19, 20, 199, 200, 9999, 10000, 65535}

HighLimbSamples == {0, 1, 65535}

FeeAmounts ==
    { <<l1, l2, l3, l4>> : l1 \in LowLimbSamples,
                           l2 \in HighLimbSamples,
                           l3 \in HighLimbSamples,
                           l4 \in {0, 1, 4095, 65535} }
    \cup { U64MaxDiv1000, Plus(U64MaxDiv1000, U64(1)),
           LargestPayable, Plus(LargestPayable, U64(1)),
           <<16959, 15, 0, 0>> }

\* Eight bytes that are the tag of no instruction of this program.
OtherTag == <<0, 0, 0, 0, 0, 0, 0, 0>>

PairingAmounts == {U64(200), U64(10000), Plus(LargestPayable, U64(1))}

\* Instructions at index 0 that are not a Borrow of this program yet carry
\* 16 bytes: a foreign instruction with another tag and no accounts, and a
\* Repay of this program followed by eight more bytes.
UnpairedFirst ==
    { Ix(OtherProgram, <<>>, OtherTag \o ToLeBytes(a)) : a \in PairingAmounts }
    \cup { Ix(ID, LoanAccounts("B1"), RepayData \o ToLeBytes(a)) :
              a \in PairingAmounts }

FeeTxs ==
    { <<Ix(p, LoanAccounts("B1"), BorrowData(a)),
        Ix(ID, LoanAccounts("B1"), RepayData)>> :
      p \in {ID, OtherProgram}, a \in FeeAmounts }
    \cup { <<first, Ix(ID, LoanAccounts("B1"), RepayData)>> :
              first \in UnpairedFirst }

\* The reserve holds 15/16 of the supply and the borrower the rest.
FeeBalances ==
    [a \in TokenAccounts |->
        CASE a = "P" -> <<65535, 65535, 65535, 61439>>
          [] a = "A1" -> <<0, 0, 0, 4096>>
          [] OTHER -> U64(0)]

InitFee ==
    /\ balances = FeeBalances
    /\ snapshot = balances
    /\ tx = <<>>
    /\ pc = 0
    /\ status = "idle"
    /\ err = "Ok"
    /\ log = <<>>
    /\ txCount = 0

SubmitFee == SubmitFrom(FeeTxs)

NextFee ==
    \/ SubmitFee
    \/ Settle
    \/ ExecBorrow
    \/ ExecRepay
    \/ ExecForeignOk

SpecFee == InitFee /\ [][NextFee]_vars

----------------------------------------------------------------------------
(* Sequences of transactions against one reserve: each transaction is any   *)
(* list of Borrow, Repay (of either wallet) and foreign instructions, and   *)
(* the next one starts from the balances the previous one left.             *)

MaxSeqTx == 2

SeqInstrs ==
    { Ix(ID, LoanAccounts("B1"), BorrowData(U64(10000))),
      Ix(ID, LoanAccounts("B1"), RepayData),
      Ix(ID, LoanAccounts("B2"), RepayData),
      Ix(OtherProgram, LoanAccounts("B1"), BorrowData(U64(100))) }

SeqTxs == UNION { [1..n -> SeqInstrs] : n \in 1..MaxTxLen }

SubmitSeq ==
    /\ status = "idle"
    /\ txCount < MaxSeqTx
    /\ \E t \in SeqTxs : tx' = t
    /\ snapshot' = balances
    /\ pc' = 0
    /\ status' = "running"
    /\ err' = "Ok"
    /\ log' = <<>>
    /\ txCount' = txCount + 1
    /\ UNCHANGED balances

NextSeq ==
    \/ SubmitSeq
    \/ Settle
    \/ ExecBorrow
    \/ ExecRepay
    \/ ExecForeignOk
    \/ ExecForeignFail
    \/ ExecForeignSpend

SpecSeq == Init /\ [][NextSeq]_vars

----------------------------------------------------------------------------
(* Transactions that vary the last instruction: either program identity,    *)
(* payloads with the Repay tag, another tag, the Borrow tag or no complete  *)
(* tag, and account lists that match Borrow's at both, one or neither of    *)
(* positions 3 and 4.  Borrow runs at index 0, or at index 1 after an       *)
(* instruction of another program.                                          *)

LastPayloads ==
    { RepayData, RepayData \o ToLeBytes(U64(100)), BorrowData(U64(100)),
      OtherTag, <<234, 103, 67>> }

LastAccountLists ==
    RepayAccountLists \cup { <<"B1", ProtocolPda, MintKey, "A2", "Ext">> }

Lasts ==
    { Ix(p, accs, d) :
      p \in {ID, OtherProgram}, accs \in LastAccountLists, d \in LastPayloads }

LastTxs ==
    { <<Ix(ID, LoanAccounts("B1"), BorrowData(a)), l>> :
      a \in BorrowAmounts, l \in Lasts }
    \cup { <<Ix(OtherProgram, LoanAccounts("B1"), OtherTag),
              Ix(ID, LoanAccounts("B1"), BorrowData(U64(10000))), l>> :
            l \in Lasts }
    \cup { <<Ix(ID, LoanAccounts("B1"), BorrowData(U64(10000)))>> }

SubmitLast == SubmitFrom(LastTxs)

NextLast ==
    \/ SubmitLast
    \/ Settle
    \/ ExecBorrow
    \/ ExecRepay
    \/ ExecForeignOk

SpecLast == Init /\ [][NextLast]_vars

----------------------------------------------------------------------------
(* Vocabulary of the properties.                                            *)

\* A Borrow / Repay Call of this protocol: own program identity and the tag.
IsBorrowCall(ix) ==
    /\ ix.program_id = ID
    /\ SliceOk(ix.data, 8)
    /\ Slice(ix.data, 0, 8) = BorrowDiscriminator

IsRepayCall(ix) ==
    /\ ix.program_id = ID
    /\ SliceOk(ix.data, 8)
    /\ Slice(ix.data, 0, 8) = RepayDiscriminator

Finished == status \in {"committed", "aborted"}

\* Balances right before the i-th executed instruction of the transaction.
BalBefore(i) == IF i = 1 THEN snapshot ELSE log[i - 1].bal

\* f = floor(a * 500 / 10000), stated by multiplication only:
\* 10000 * f <= 500 * a < 10000 * (f + 1).
IsFloorFee(a, f) ==
    LET lhs == MulFrom(AsU128(f), 10000, 1, 0)
        mid == MulFrom(AsU128(a), 500, 1, 0)
        one == [i \in 1..(U128Limbs + 1) |-> IF i = 1 THEN 10000 ELSE 0]
        rhs == SubSeq(AddFrom(lhs, one, 1, 0), 1, U128Limbs + 1)
    IN  Leq(lhs, mid) /\ Lt(mid, rhs)

----------------------------------------------------------------------------
(* C1: in every committed transaction in which a Borrow executed, the       *)
(* Borrow is the instruction at index 0 and the last instruction is a       *)
(* Repay of this program (own program id, Repay tag) whose accounts at      *)
(* positions 3 and 4 are the Borrow's borrower and reserve token accounts.  *)
C1_BorrowFirstRepayLast ==
    status = "committed" =>
        \A i \in 1..Len(log) :
            log[i].op = "borrow" =>
                /\ i = 1
                /\ IsRepayCall(tx[Len(tx)])
                /\ Get(tx[Len(tx)].accounts, 3) = Get(tx[i].accounts, BorrowerAtaPos)
                /\ Get(tx[Len(tx)].accounts, 4) = Get(tx[i].accounts, ProtocolAtaPos)

C1_Witness ==
    /\ status = "committed"
    /\ Len(tx) = 3
    /\ log[1].op = "borrow"
    /\ log[1].res = "Ok"
    /\ log[2].op = "foreign"

----------------------------------------------------------------------------
(* C2: when an instruction fails after Borrow has moved borrow_amount out   *)
(* of the reserve, the transaction aborts with every token balance back at  *)
(* its value before the transaction; and a committed transaction in which   *)
(* a Borrow transferred also holds a later, successful Repay transfer.      *)
C2_NoPartialBorrow ==
    /\ status = "aborted" => balances = snapshot
    /\ (Finished /\ \E i \in 1..Len(log) : log[i].res # "Ok") =>
           status = "aborted"
    /\ status = "committed" =>
           \A i \in 1..Len(log) :
               (log[i].op = "borrow" /\ log[i].xfer = 1) =>
                   \E j \in (i + 1)..Len(log) :
                       /\ log[j].op = "repay"
                       /\ log[j].res = "Ok"
                       /\ log[j].xfer = 1

\* Borrow released the funds, an intermediate instruction spent part of
\* them, and Repay failed for insufficient borrower balance.
C2_Witness ==
    /\ status = "aborted"
    /\ Len(log) = 3
    /\ log[1].op = "borrow"
    /\ log[1].res = "Ok"
    /\ log[1].bal["P"] # snapshot["P"]
    /\ log[3].op = "repay"
    /\ log[3].res = "InsufficientFunds"
    /\ balances = snapshot

\* The other failures C2 names, each after Borrow's transfer.
C2_ReachStructural ==
    /\ status = "aborted"
    /\ log[1].op = "borrow"
    /\ log[1].res = "InvalidBorrowerAta"
    /\ log[1].bal["P"] # snapshot["P"]

C2_ReachOverflow ==
    /\ status = "aborted"
    /\ log[1].op = "borrow"
    /\ log[1].res = "Ok"
    /\ log[Len(log)].op = "repay"
    /\ log[Len(log)].res = "Overflow"

C2_ReachIntermediate ==
    /\ status = "aborted"
    /\ log[1].op = "borrow"
    /\ log[1].res = "Ok"
    /\ log[Len(log)].op = "foreign"
    /\ log[Len(log)].res = "ForeignError"

----------------------------------------------------------------------------
(* C3: in a committed transaction [Borrow(a), Repay] on one borrower and    *)
(* reserve token account pair, a > 0, Borrow moves a from the reserve to    *)
(* the borrower, Repay moves a + fee(a) back, fee(a) = floor(a*500/10000):  *)
(* the reserve ends fee(a) higher, the borrower fee(a) lower, and the sum   *)
(* of the two balances is unchanged.                                        *)
C3_BorrowRepayNet ==
    ( /\ status = "committed"
      /\ Len(tx) = 2
      /\ IsBorrowCall(tx[1])
      /\ IsRepayCall(tx[2]) ) =>
        LET a == BorrowArg(tx[1])
            b == Get(tx[1].accounts, BorrowerAtaPos)
            r == Get(tx[1].accounts, ProtocolAtaPos)
            f == Minus(balances[r], snapshot[r])
        IN  /\ Lt(U64(0), a)
            /\ Get(tx[2].accounts, BorrowerAtaPos) = b
            /\ Get(tx[2].accounts, ProtocolAtaPos) = r
            /\ log[1].amt = a
            /\ log[1].bal[r] = Minus(snapshot[r], a)
            /\ log[1].bal[b] = Plus(snapshot[b], a)
            /\ IsFloorFee(a, f)
            /\ log[2].amt = Plus(a, f)
            /\ Leq(snapshot[r], balances[r])
            /\ balances[r] = Plus(log[1].bal[r], Plus(a, f))
            /\ balances[b] = Minus(log[1].bal[b], Plus(a, f))
            /\ Plus(balances[b], f) = snapshot[b]
            /\ Plus(balances[r], balances[b]) = Plus(snapshot[r], snapshot[b])

\* amount = 10000: fee 500, total 10500.
C3_Witness ==
    /\ status = "committed"
    /\ Len(tx) = 2
    /\ IsBorrowCall(tx[1])
    /\ IsRepayCall(tx[2])
    /\ BorrowArg(tx[1]) = U64(10000)
    /\ log[2].amt = U64(10500)
    /\ balances["P"] = Plus(snapshot["P"], U64(500))

----------------------------------------------------------------------------
(* C4 (as claimed): in a committed transaction that contains a Borrow,      *)
(* exactly one Borrow and exactly one Repay of this program execute, the    *)
(* Borrow before the Repay.                                                 *)
C4_ExactlyOnce ==
    (status = "committed" /\ \E i \in 1..Len(log) : log[i].op = "borrow") =>
        LET borrows == {i \in 1..Len(log) : log[i].op = "borrow"}
            repays == {i \in 1..Len(log) : log[i].op = "repay"}
        IN  /\ Cardinality(borrows) = 1
            /\ Cardinality(repays) = 1
            /\ \A i \in borrows : \A j \in repays : i < j

----------------------------------------------------------------------------
(* C5 (as claimed): a transaction whose only instruction is a Borrow with   *)
(* borrow_amount > 0 and a sufficient reserve fails with MissingRepayIx.    *)
OnlyBorrow ==
    /\ Finished
    /\ Len(tx) = 1
    /\ IsBorrowCall(tx[1])
    /\ log[1].op = "borrow"
    /\ Lt(U64(0), BorrowArg(tx[1]))
    /\ Leq(BorrowArg(tx[1]), snapshot[Get(tx[1].accounts, ProtocolAtaPos)])

C5_Original ==
    OnlyBorrow => (status = "aborted" /\ err = "MissingRepayIx")

(* C5 (amended): such a transaction fails with InvalidIx: the last          *)
(* instruction is the Borrow itself, present, of this program, and its tag  *)
(* is not the Repay tag.                                                    *)
C5_OnlyBorrowInvalidIx ==
    OnlyBorrow => (status = "aborted" /\ err = "InvalidIx" /\ log[1].res = "InvalidIx")

C5_Witness ==
    /\ OnlyBorrow
    /\ status = "aborted"
    /\ log[1].xfer = 1
    /\ log[1].bal # snapshot

----------------------------------------------------------------------------
(* C6 (as claimed): a transaction in which a Repay of this program comes    *)
(* before the Borrow fails with InvalidIx.  Stated for the transactions     *)
(* made only of Borrow and Repay instructions of this program that pass     *)
(* the entry point, every Borrow with borrow_amount > 0 and a sufficient    *)
(* reserve.                                                                 *)
RepayBeforeBorrow ==
    \E i \in 1..Len(tx) : \E j \in (i + 1)..Len(tx) :
        IsRepayCall(tx[i]) /\ IsBorrowCall(tx[j])

BorrowsFundable ==
    \A j \in 1..Len(tx) :
        /\ Entry(tx[j]) \in {"borrow", "repay"}
        /\ tx[j].program_id = ID
        /\ IsBorrowCall(tx[j]) =>
               /\ Lt(U64(0), BorrowArg(tx[j]))
               /\ Leq(BorrowArg(tx[j]),
                      snapshot[Get(tx[j].accounts, ProtocolAtaPos)])

C6_ReachRepayFirst ==
    /\ status = "aborted"
    /\ Len(tx) = 2
    /\ IsRepayCall(tx[1])
    /\ IsBorrowCall(tx[2])
    /\ BorrowsFundable
    /\ err = "Panic"

----------------------------------------------------------------------------
(* Borrow ran at index 0 with borrow_amount > 0 and a reserve covering it.  *)
BorrowRanFirst ==
    /\ Len(log) >= 1
    /\ log[1].op = "borrow"
    /\ Lt(U64(0), BorrowArg(tx[1]))
    /\ Leq(BorrowArg(tx[1]), snapshot[Get(tx[1].accounts, ProtocolAtaPos)])

LastIx == tx[Len(tx)]

HasRepayTag(ix) == SliceOk(ix.data, 8) /\ Slice(ix.data, 0, 8) = RepayDiscriminator

(* C7: when Borrow executes at index 0 with borrow_amount > 0 and a         *)
(* sufficient reserve, and the last instruction carries the Repay tag but   *)
(* another program identity, Borrow fails with InvalidProgram and the       *)
(* transaction aborts.                                                      *)
C7_ForeignRepayInvalidProgram ==
    (BorrowRanFirst /\ HasRepayTag(LastIx) /\ LastIx.program_id # ID) =>
        /\ log[1].res = "InvalidProgram"
        /\ err = "InvalidProgram"
        /\ status = "aborted"
        /\ balances = snapshot

C7_Witness ==
    /\ BorrowRanFirst
    /\ HasRepayTag(LastIx)
    /\ LastIx.program_id = OtherProgram
    /\ Len(tx) = 3
    /\ status = "aborted"
    /\ log[1].xfer = 1

----------------------------------------------------------------------------
(* C8: when Borrow executes at index 0 with borrow_amount > 0 and a         *)
(* sufficient reserve, and the last instruction is a Repay of this program: *)
(* if its account at position 3 is absent or is not Borrow's borrower token *)
(* account, Borrow fails with InvalidBorrowerAta; otherwise, if its account *)
(* at position 4 is absent or is not Borrow's reserve token account, Borrow *)
(* fails with InvalidProtocolAta.                                           *)
C8_AtaChecks ==
    (BorrowRanFirst /\ IsRepayCall(LastIx)) =>
        LET accs == LastIx.accounts
            bad3 == \/ Len(accs) < 4
                    \/ accs[4] # tx[1].accounts[4]
            bad4 == \/ Len(accs) < 5
                    \/ accs[5] # tx[1].accounts[5]
        IN  /\ bad3 => (log[1].res = "InvalidBorrowerAta" /\ status = "aborted")
            /\ (~bad3 /\ bad4) =>
                   (log[1].res = "InvalidProtocolAta" /\ status = "aborted")
            /\ (~bad3 /\ ~bad4) => log[1].res = "Ok"

\* Position 3 matches and position 4 is absent.
C8_Witness ==
    /\ BorrowRanFirst
    /\ IsRepayCall(LastIx)
    /\ Len(LastIx.accounts) = 4
    /\ LastIx.accounts[4] = tx[1].accounts[4]
    /\ log[1].res = "InvalidProtocolAta"

\* The other cases of C8.
C8_ReachAbsent3 ==
    BorrowRanFirst /\ IsRepayCall(LastIx) /\ Len(LastIx.accounts) = 3
    /\ log[1].res = "InvalidBorrowerAta"

C8_ReachDiffers3 ==
    BorrowRanFirst /\ IsRepayCall(LastIx) /\ Len(LastIx.accounts) = 5
    /\ LastIx.accounts[4] # tx[1].accounts[4]
    /\ log[1].res = "InvalidBorrowerAta"

C8_ReachDiffers4 ==
    BorrowRanFirst /\ IsRepayCall(LastIx) /\ Len(LastIx.accounts) = 5
    /\ LastIx.accounts[4] = tx[1].accounts[4]
    /\ LastIx.accounts[5] # tx[1].accounts[5]
    /\ log[1].res = "InvalidProtocolAta"

----------------------------------------------------------------------------
(* C9: Borrow called with borrow_amount = 0 fails with InvalidAmount at     *)
(* any index and whatever the other instructions are, before any transfer   *)
(* is attempted: the balances when it returns are those it was called with, *)
(* and the transaction aborts.                                              *)
C9_ZeroAmount ==
    \A i \in 1..Len(log) :
        (log[i].op = "borrow" /\ BorrowArg(tx[i]) = U64(0)) =>
            /\ log[i].res = "InvalidAmount"
            /\ log[i].xfer = 0
            /\ log[i].bal = BalBefore(i)
            /\ status = "aborted"
            /\ err = "InvalidAmount"
            /\ balances = snapshot

\* A zero-amount Borrow at index 2, after two instructions that succeeded.
C9_Witness ==
    /\ Len(log) = 3
    /\ log[3].op = "borrow"
    /\ BorrowArg(tx[3]) = U64(0)
    /\ log[3].res = "InvalidAmount"

C9_ReachFirst ==
    /\ Len(log) = 1
    /\ Len(tx) = 2
    /\ log[1].op = "borrow"
    /\ BorrowArg(tx[1]) = U64(0)
    /\ IsRepayCall(tx[2])
    /\ log[1].res = "InvalidAmount"

----------------------------------------------------------------------------
(* C10: for every amount a > 0 that Repay decodes, the fee is               *)
(* floor(a * 500 / 10000) (zero for a from 1 to 19) and the amount handed   *)
(* to the transfer is a + fee; for a <= u64::MAX / 1000 the sum stays in    *)
(* 64 bits: Repay does not fail with Overflow and attempts the transfer.    *)
C10_FeeFloor ==
    \A i \in 1..Len(log) :
        (log[i].op = "repay" /\ SliceOk(tx[1].data, 16)) =>
            LET a == AmountBorrowed(tx[1])
                small == a[2] = 0 /\ a[3] = 0 /\ a[4] = 0 /\ a[1] <= 19
            IN  Lt(U64(0), a) =>
                    /\ log[i].xfer = 1 =>
                           /\ Leq(a, log[i].amt)
                           /\ IsFloorFee(a, Minus(log[i].amt, a))
                    /\ (small /\ log[i].xfer = 1) => log[i].amt = a
                    /\ log[i].xfer = 0 => log[i].res = "Overflow"
                    /\ Leq(a, U64MaxDiv1000) =>
                           (log[i].res # "Overflow" /\ log[i].xfer = 1)
                    /\ log[i].res = "Ok" =>
                           log[i].bal["P"] = Plus(BalBefore(i)["P"], log[i].amt)

\* Repay decoded u64::MAX / 1000 and transferred it plus its fee.
C10_Witness ==
    /\ Len(log) = 2
    /\ log[2].op = "repay"
    /\ AmountBorrowed(tx[1]) = U64MaxDiv1000
    /\ log[2].res = "Ok"
    /\ Lt(U64MaxDiv1000, log[2].amt)

\* An amount from 1 to 19 is repaid without a fee.
C10_ReachNoFee ==
    /\ Len(log) = 2
    /\ log[2].op = "repay"
    /\ AmountBorrowed(tx[1]) = U64(19)
    /\ log[2].res = "Ok"
    /\ log[2].amt = U64(19)
    /\ IsBorrowCall(tx[1])

\* 999999 is repaid with the fee 49999.
C10_Reach999999 ==
    /\ status = "committed"
    /\ AmountBorrowed(tx[1]) = <<16959, 15, 0, 0>>
    /\ log[2].amt = <<1422, 16, 0, 0>>

----------------------------------------------------------------------------
(* C11: when the amount a that Repay decodes has a + fee(a) beyond the      *)
(* 64-bit range (a above 17568327689247192015, the largest amount whose     *)
(* total fits), Repay fails with Overflow, attempts no transfer and leaves  *)
(* the balances as it found them; for every other amount Repay does not     *)
(* fail with Overflow and hands the total to the transfer.                  *)
C11_OverflowExactly ==
    \A i \in 1..Len(log) :
        (log[i].op = "repay" /\ SliceOk(tx[1].data, 16)) =>
            LET a == AmountBorrowed(tx[1])
            IN  /\ Lt(LargestPayable, a) =>
                       /\ log[i].res = "Overflow"
                       /\ log[i].xfer = 0
                       /\ log[i].bal = BalBefore(i)
                       /\ status = "aborted"
                /\ Leq(a, LargestPayable) =>
                       /\ log[i].res # "Overflow"
                       /\ log[i].xfer = 1

\* The first amount past the threshold: Overflow.
C11_Witness ==
    /\ Len(log) = 2
    /\ log[2].op = "repay"
    /\ AmountBorrowed(tx[1]) = Plus(LargestPayable, U64(1))
    /\ log[2].res = "Overflow"

\* The threshold itself: the total is u64::MAX and the transfer is attempted.
C11_ReachThreshold ==
    /\ Len(log) = 2
    /\ log[2].op = "repay"
    /\ AmountBorrowed(tx[1]) = LargestPayable
    /\ log[2].amt = U64Max
    /\ log[2].xfer = 1

----------------------------------------------------------------------------
(* C12: for every 64-bit amount a the Borrow payload has 16 bytes, the      *)
(* Borrow tag followed by a in little-endian; decoding its bytes 8..16 as   *)
(* Repay does yields a, which is also the borrow_amount Borrow receives     *)
(* and hands to its transfer.                                               *)
C12_PayloadRoundTrip ==
    \A a \in FeeAmounts :
        (Len(tx) >= 1 /\ tx[1].data = BorrowData(a)) =>
            /\ Len(tx[1].data) = 16
            /\ SubSeq(tx[1].data, 1, 8) = BorrowDiscriminator
            /\ \A k \in 1..4 :
                   tx[1].data[7 + 2 * k] + 256 * tx[1].data[8 + 2 * k] = a[k]
            /\ AmountBorrowed(tx[1]) = a
            /\ (Len(log) >= 1 /\ log[1].op = "borrow" /\ log[1].xfer = 1) =>
                   log[1].amt = a
            /\ (Len(log) >= 2 /\ log[2].op = "repay" /\ log[2].xfer = 1) =>
                   /\ Leq(a, log[2].amt)
                   /\ IsFloorFee(a, Minus(log[2].amt, a))

\* Borrow received 65535 * 2^16 + 9999 and Repay decoded the same amount.
C12_Witness ==
    /\ status = "committed"
    /\ Len(tx) = 2
    /\ tx[1].data = BorrowData(<<9999, 65535, 0, 0>>)
    /\ log[1].op = "borrow"
    /\ log[1].amt = <<9999, 65535, 0, 0>>
    /\ log[2].op = "repay"
    /\ Lt(<<9999, 65535, 0, 0>>, log[2].amt)

\* The amounts 0, 1 and u64::MAX are encoded and submitted too.
C12_ReachMax ==
    Len(tx) >= 1 /\ tx[1].data = BorrowData(U64Max) /\ IsBorrowCall(tx[1])
    /\ Len(log) = 1 /\ log[1].amt = U64Max

----------------------------------------------------------------------------
(* C14: Repay does not verify that it is paired with a Borrow.  Whatever    *)
(* the program identity, tag and accounts of the instruction at index 0,    *)
(* when its payload has at least 16 bytes Repay fails only on the overflow  *)
(* of the total or in the transfer, and the amount it hands to the transfer *)
(* from the borrower to the reserve is the amount in bytes 8..16 plus its   *)
(* floor fee; this also holds in a transaction with no Borrow of this       *)
(* program.                                                                 *)
C14_RepayUnpaired ==
    \A i \in 1..Len(log) :
        (log[i].op = "repay" /\ SliceOk(tx[1].data, 16)) =>
            LET a == FromLeBytes(Slice(tx[1].data, 8, 16))
            IN  /\ log[i].res \in {"Ok", "Overflow", "InsufficientFunds"}
                /\ log[i].xfer = 0 <=> log[i].res = "Overflow"
                /\ log[i].xfer = 1 =>
                       /\ Leq(a, log[i].amt)
                       /\ IsFloorFee(a, Minus(log[i].amt, a))
                /\ log[i].res = "Ok" =>
                       /\ log[i].bal["P"] = Plus(BalBefore(i)["P"], log[i].amt)
                       /\ log[i].bal["A1"] = Minus(BalBefore(i)["A1"], log[i].amt)

\* A committed transaction with no Borrow of this program: a foreign
\* instruction with another tag and no accounts carries 200 in bytes 8..16,
\* and Repay moves 210 from the borrower to the reserve.
C14_Witness ==
    /\ status = "committed"
    /\ Len(tx) = 2
    /\ tx[1].program_id = OtherProgram
    /\ tx[1].accounts = <<>>
    /\ Slice(tx[1].data, 0, 8) = OtherTag
    /\ log[2].op = "repay"
    /\ log[2].amt = U64(210)
    /\ balances["P"] = Plus(snapshot["P"], U64(210))

\* A Repay at index 0 with 16 bytes reads the amount from its own payload,
\* and so does the Repay after it.
C14_ReachRepayFirst ==
    /\ status = "committed"
    /\ Len(tx) = 2
    /\ IsRepayCall(tx[1])
    /\ log[1].op = "repay"
    /\ log[1].amt = U64(10500)
    /\ log[2].op = "repay"
    /\ log[2].amt = U64(10500)

----------------------------------------------------------------------------
C15_ReachSplit ==
    /\ txCount = 2
    /\ status = "aborted"
    /\ Len(tx) = 1
    /\ IsRepayCall(tx[1])
    /\ log[1].res = "Panic"
    /\ balances["P"] = U64(20000)

----------------------------------------------------------------------------
\* What borrow's introspection of the transaction can fail with.
StructuralErrors ==
    {"InvalidIx", "InvalidProgram", "InvalidBorrowerAta", "InvalidProtocolAta",
     "MissingRepayIx", "Panic"}

(* C16: inside Borrow the amount check comes first, then the transfer out   *)
(* of the reserve, then the index check and the checks on the last          *)
(* instruction.  A Borrow of a positive amount always attempts the          *)
(* transfer; when the reserve holds less than the amount it fails with the  *)
(* transfer's error at whatever index it runs; and when it fails a          *)
(* structural check the balances it leaves at that moment have the amount   *)
(* taken from the reserve and added to the borrower's account, before the   *)
(* transaction is rolled back.                                              *)
C16_TransferBeforeValidation ==
    \A i \in 1..Len(log) :
        log[i].op = "borrow" =>
            LET a == BorrowArg(tx[i])
                b == BalBefore(i)
                ata == Get(tx[i].accounts, BorrowerAtaPos)
            IN  /\ ~Lt(Zero(U64Limbs), a) =>
                       /\ log[i].res = "InvalidAmount"
                       /\ log[i].xfer = 0
                       /\ log[i].bal = b
                /\ Lt(Zero(U64Limbs), a) => (log[i].xfer = 1 /\ log[i].amt = a)
                /\ (Lt(Zero(U64Limbs), a) /\ Lt(b["P"], a)) =>
                       /\ log[i].res = "InsufficientFunds"
                       /\ log[i].bal = b
                /\ log[i].res \in StructuralErrors =>
                       /\ Leq(a, b["P"])
                       /\ log[i].bal["P"] = Minus(b["P"], a)
                       /\ log[i].bal[ata] = Plus(b[ata], a)
                       /\ status = "aborted"
                       /\ balances = snapshot

\* A Borrow at index 1 asking for more than the reserve holds: the transfer's
\* error, not InvalidIx.
C16_Witness ==
    /\ Len(log) = 2
    /\ log[2].op = "borrow"
    /\ BorrowArg(tx[2]) = BigAmount
    /\ snapshot["P"] = U64(20000)
    /\ log[2].res = "InsufficientFunds"

\* A Borrow at index 1 that the reserve can fund: InvalidIx, with the amount
\* already moved when it fails.
C16_ReachMoved ==
    /\ Len(log) = 2
    /\ log[2].op = "borrow"
    /\ log[2].res = "InvalidIx"
    /\ log[2].bal["P"] = U64(10000)
    /\ log[2].bal["A1"] = U64(22000)
    /\ balances["P"] = U64(20000)

\* A Borrow at index 0 failing a check on the last instruction.
C16_ReachLastCheck ==
    /\ Len(log) = 1
    /\ log[1].op = "borrow"
    /\ log[1].res = "InvalidBorrowerAta"
    /\ log[1].bal["P"] = U64(10000)
    /\ balances["P"] = U64(20000)

----------------------------------------------------------------------------
\* The error the checks on the last instruction give when applied in the
\* order program identity, tag, borrower token account, reserve token
\* account, for the Borrow at index i.
FirstFailingCheck(i) ==
    IF i > 1 THEN "InvalidIx"
    ELSE IF LastIx.program_id # ID THEN "InvalidProgram"
    ELSE IF ~HasRepayTag(LastIx) THEN "InvalidIx"
    ELSE IF Get(LastIx.accounts, BorrowerAtaPos) # Get(tx[i].accounts, BorrowerAtaPos)
    THEN "InvalidBorrowerAta"
    ELSE IF Get(LastIx.accounts, ProtocolAtaPos) # Get(tx[i].accounts, ProtocolAtaPos)
    THEN "InvalidProtocolAta"
    ELSE "Ok"

\* Borrow ran at index i - 1 with a positive amount the reserve could fund.
BorrowRanAt(i) ==
    /\ i \in 1..Len(log)
    /\ log[i].op = "borrow"
    /\ Lt(U64(0), BorrowArg(tx[i]))
    /\ Leq(BorrowArg(tx[i]), BalBefore(i)[Get(tx[i].accounts, ProtocolAtaPos)])

(* C17: Borrow's checks on the last instruction are applied in the order    *)
(* program identity, tag, borrower token account, reserve token account,    *)
(* and the first that fails determines the error: a foreign last            *)
(* instruction yields InvalidProgram whatever its tag; one of this program  *)
(* without the Repay tag yields InvalidIx whatever its accounts; a Repay    *)
(* with both accounts wrong yields InvalidBorrowerAta; and a Borrow that is *)
(* not at index 0 yields InvalidIx whatever the last instruction is.        *)
C17_LastCallCheckOrder ==
    \A i \in 1..Len(log) :
        BorrowRanAt(i) => log[i].res = FirstFailingCheck(i)

\* The same order, for last instructions that carry a complete tag.
C17_OrderWithCompleteTag ==
    \A i \in 1..Len(log) :
        (BorrowRanAt(i) /\ (i > 1 \/ LastIx.program_id # ID \/ SliceOk(LastIx.data, 8))) =>
            log[i].res = FirstFailingCheck(i)

\* The cases the order is about are all reached.
C17_ReachForeignOtherTag ==
    BorrowRanAt(1) /\ LastIx.program_id # ID /\ ~HasRepayTag(LastIx)
    /\ Get(LastIx.accounts, BorrowerAtaPos) # "A1"
    /\ log[1].res = "InvalidProgram"

C17_ReachWrongTagWrongAccounts ==
    BorrowRanAt(1) /\ LastIx.program_id = ID /\ LastIx.data = OtherTag
    /\ Get(LastIx.accounts, BorrowerAtaPos) = "A2"
    /\ Get(LastIx.accounts, ProtocolAtaPos) = "Ext"
    /\ log[1].res = "InvalidIx"

C17_ReachBothAccountsWrong ==
    BorrowRanAt(1) /\ IsRepayCall(LastIx)
    /\ Get(LastIx.accounts, BorrowerAtaPos) = "A2"
    /\ Get(LastIx.accounts, ProtocolAtaPos) = "Ext"
    /\ log[1].res = "InvalidBorrowerAta"

C17_ReachNotFirst ==
    BorrowRanAt(2) /\ LastIx.program_id # ID /\ ~SliceOk(LastIx.data, 8)
    /\ log[2].res = "InvalidIx"

\* No complete tag and wrong accounts: neither InvalidIx nor any other error
\* of the program.
C17_ReachShortPayload ==
    BorrowRanAt(1) /\ LastIx.program_id = ID /\ ~SliceOk(LastIx.data, 8)
    /\ Get(LastIx.accounts, BorrowerAtaPos) = "A2"
    /\ log[1].res = "Panic"

----------------------------------------------------------------------------
(* C18: when Borrow executes at index 0 with borrow_amount > 0 and a        *)
(* sufficient reserve, and the last instruction targets this program but    *)
(* does not carry the Repay tag, Borrow fails with InvalidIx; for every     *)
(* payload of the last instruction, one of fewer than 8 bytes included, and *)
(* also when the last instruction is the Borrow itself.                     *)
C18_NonRepayTagInvalidIx ==
    (BorrowRanFirst /\ LastIx.program_id = ID /\ ~HasRepayTag(LastIx)) =>
        /\ log[1].res = "InvalidIx"
        /\ status = "aborted"
        /\ balances = snapshot

\* The same for payloads of at least 8 bytes.
C18_CompleteTagInvalidIx ==
    (BorrowRanFirst /\ LastIx.program_id = ID /\ ~HasRepayTag(LastIx)
       /\ SliceOk(LastIx.data, 8)) =>
        /\ log[1].res = "InvalidIx"
        /\ status = "aborted"
        /\ balances = snapshot

\* The last instruction is the Borrow itself: InvalidIx.
C18_ReachBorrowItself ==
    BorrowRanFirst /\ Len(tx) = 1 /\ log[1].res = "InvalidIx"

\* The last instruction has three bytes of payload: the slice data[0..8] is
\* out of range.
C18_ReachShortPayload ==
    BorrowRanFirst /\ LastIx.program_id = ID /\ Len(LastIx.data) = 3
    /\ log[1].res = "Panic" /\ status = "aborted"

----------------------------------------------------------------------------
(* C19: the balance of the reserve token account decreases only in the      *)
(* transfer of a Borrow, whose authority is the derived reserve authority   *)
(* that owns the account, and then by the borrowed amount.  Repay never     *)
(* decreases it: Repay changes no balance other than those of its borrower  *)
(* and reserve token accounts, and when it succeeds the borrower's account, *)
(* owned by the signing borrower, is debited and the reserve credited by    *)
(* the amount transferred.  No other instruction decreases the reserve.     *)
C19_ReserveFrame ==
    \A i \in 1..Len(log) :
        LET b == BalBefore(i)
            e == log[i]
            from == Get(tx[i].accounts, BorrowerAtaPos)
            to == Get(tx[i].accounts, ProtocolAtaPos)
        IN  /\ Lt(e.bal["P"], b["P"]) =>
                   /\ e.op = "borrow"
                   /\ e.xfer = 1
                   /\ to = "P"
                   /\ Get(tx[i].accounts, ProtocolPos) = TokenOwner["P"]
                   /\ TokenOwner["P"] = ProtocolPda
                   /\ e.bal["P"] = Minus(b["P"], e.amt)
                   /\ \A t \in TokenAccounts \ {from, to} : e.bal[t] = b[t]
            /\ e.op = "repay" =>
                   /\ Leq(b["P"], e.bal["P"])
                   /\ \A t \in TokenAccounts \ {from, to} : e.bal[t] = b[t]
                   /\ e.res = "Ok" =>
                          /\ TokenOwner[from] = Get(tx[i].accounts, BorrowerPos)
                          /\ Leq(e.amt, b[from])
                          /\ e.bal[from] = Minus(b[from], e.amt)
                          /\ e.bal[to] = Plus(b[to], e.amt)
                   /\ e.res # "Ok" => e.bal = b

\* Borrow lowers the reserve and the Repay of the same transaction raises
\* it, leaving the other wallet's account and the external account alone.
C19_Witness ==
    /\ status = "committed"
    /\ Len(log) = 2
    /\ log[1].op = "borrow"
    /\ log[1].bal["P"] = Minus(snapshot["P"], U64(10000))
    /\ log[2].op = "repay"
    /\ log[2].bal["P"] = Plus(log[1].bal["P"], U64(10500))
    /\ log[2].bal["A2"] = snapshot["A2"]
    /\ log[2].bal["Ext"] = snapshot["Ext"]

\* A Repay of the other wallet changes that wallet's account and the reserve.
C19_ReachOtherWallet ==
    /\ Len(log) >= 2
    /\ log[2].op = "repay"
    /\ log[2].res = "Ok"
    /\ Get(tx[2].accounts, BorrowerPos) = "B2"
    /\ Lt(log[2].bal["A2"], log[1].bal["A2"])
    /\ log[2].bal["A1"] = log[1].bal["A1"]

\* An instruction of another program spends its signer's tokens: the reserve
\* stays as it was.
C19_ReachForeignSpend ==
    /\ Len(log) >= 1
    /\ log[1].op = "foreign"
    /\ log[1].res = "Ok"
    /\ Lt(log[1].bal["A1"], snapshot["A1"])
    /\ log[1].bal["P"] = snapshot["P"]

----------------------------------------------------------------------------
(* C20: while an instruction of this program executes, the transaction      *)
(* holds at least one instruction, the executing one: the instruction count *)
(* minus one is not negative, the instruction at that index and the one at  *)
(* index 0 are present, and the executing instruction's own index is below  *)
(* the count.  Hence no execution of Borrow returns MissingRepayIx and no   *)
(* execution of Repay returns MissingBorrowIx.                              *)
C20_NoMissingInstruction ==
    /\ status = "running" =>
           /\ InstructionCount(tx) >= 1
           /\ LoadCurrentIndex(pc) < InstructionCount(tx)
           /\ LoadInstructionAt(LoadCurrentIndex(pc), tx).ix = Current
           /\ LoadInstructionAt(InstructionCount(tx) - 1, tx).ok
           /\ LoadInstructionAt(0, tx).ok
    /\ \A i \in 1..Len(log) :
           /\ i <= InstructionCount(tx)
           /\ log[i].op = "borrow" => log[i].res # "MissingRepayIx"
           /\ log[i].op = "repay" => log[i].res # "MissingBorrowIx"

\* A transaction of one instruction, a Borrow: index 0 is also the last
\* index, the Borrow finds itself there and fails with InvalidIx.
C20_Witness ==
    /\ Len(tx) = 1
    /\ Len(log) = 1
    /\ log[1].op = "borrow"
    /\ log[1].xfer = 1
    /\ LoadInstructionAt(InstructionCount(tx) - 1, tx).ix = tx[1]
    /\ log[1].res = "InvalidIx"

\* A transaction of one instruction, a Repay: it finds itself at index 0.
C20_ReachLoneRepay ==
    /\ Len(tx) = 1
    /\ Len(log) = 1
    /\ log[1].op = "repay"
    /\ LoadInstructionAt(0, tx).ok
    /\ log[1].res = "Panic"

----------------------------------------------------------------------------
(* C21: for every 64-bit amount a that Repay decodes, the multiplication by *)
(* 500 in 128 bits and the division by 10000 do not fail, the quotient has  *)
(* no bit above the 64th, so `as u64` returns it unchanged and the narrowed *)
(* fee is still floor(a * 500 / 10000); Repay's arithmetic never panics,    *)
(* and it signals Overflow exactly when the addition a + fee carries out of *)
(* 64 bits.                                                                 *)
C21_FeeFitsOnlyAddOverflows ==
    \A i \in 1..Len(log) :
        (log[i].op = "repay" /\ SliceOk(tx[1].data, 16)) =>
            LET a == AmountBorrowed(tx[1])
                w == FeeWide(a)
                f == Fee(a)
                carry == AddFrom(a, f.val, 1, 0)[U64Limbs + 1]
            IN  /\ w.mul /\ w.div
                /\ \A k \in (U64Limbs + 1)..U128Limbs : w.val[k] = 0
                /\ f.res = "Ok"
                /\ AsU128(f.val) = w.val
                /\ IsFloorFee(a, f.val)
                /\ log[i].res # "Panic"
                /\ log[i].res = "Overflow" <=> carry # 0
                /\ log[i].xfer = 1 <=> carry = 0
                /\ log[i].xfer = 1 => log[i].amt = Plus(a, f.val)

\* Repay decoded u64::MAX: the fee 922337203685477580 fits in 64 bits and
\* the addition overflows.
C21_Witness ==
    /\ Len(log) = 2
    /\ log[2].op = "repay"
    /\ AmountBorrowed(tx[1]) = U64Max
    /\ FeeWide(U64Max).val = <<52428, 52428, 52428, 3276, 0, 0, 0, 0>>
    /\ Fee(U64Max).val = <<52428, 52428, 52428, 3276>>
    /\ log[2].res = "Overflow"

\* An amount whose product with 500 needs more than 64 bits and whose total
\* still fits: no Overflow.
C21_ReachWideProduct ==
    /\ Len(log) = 2
    /\ log[2].op = "repay"
    /\ AmountBorrowed(tx[1]) = LargestPayable
    /\ ~CheckedMul(LargestPayable, FeeBps).some
    /\ FeeWide(LargestPayable).mul
    /\ log[2].xfer = 1
    /\ log[2].res # "Overflow"

====
